---- MODULE Spec2Model ----
(***************************************************************************)
(* Announcements endpoints of the High School Management System API        *)
(* (src/backend/routers/announcements.py): the five request handlers over  *)
(* the announcements collection and the teacher registry.                  *)
(*                                                                         *)
(* Strings that the code orders or parses (dates, ObjectId strings) are    *)
(* tuples of one-character strings, ordered as Python and MongoDB order    *)
(* them: lexicographically by code point.  Usernames and messages are only *)
(* compared for equality and stay atomic.                                  *)
(***************************************************************************)
EXTENDS Integers, Sequences, FiniteSets, TLC

VARIABLES
    announcements_collection, \* the documents, in natural (insertion) order
    clock,                    \* the day datetime.now() is in, counted from 2024-06-30
    next_oid,                 \* the next ObjectId insert_one generates
    resp,                     \* the last response the router sent
    tracked,                  \* history: the last record created with no start_date, unmodified since
    reqs                      \* the in-flight requests of the concurrent specification

vars == <<announcements_collection, clock, next_oid, resp, tracked, reqs>>

(* ---------------------------------------------------------------------- *)
(* Bounds                                                                  *)
(* ---------------------------------------------------------------------- *)
MaxDay == 1   \* the clock stops advancing after this day
MaxOid == 1   \* insert_one generates the ObjectIds 1..MaxOid

(* ---------------------------------------------------------------------- *)
(* Strings                                                                 *)
(* ---------------------------------------------------------------------- *)
\* The characters in use, in code-point order.
Alphabet ==
    << "-", "0", "1", "2", "3", "4", "5", "6", "7", "8", "9", ":",
       "T", "Z", "a", "b", "c", "d", "e", "f" >>

\* ord(c), up to the offset of the first character.
Ord ==
    [c \in {Alphabet[i] : i \in 1..Len(Alphabet)} |->
        CHOOSE i \in 1..Len(Alphabet) : Alphabet[i] = c]

Digits == << "0", "1", "2", "3", "4", "5", "6", "7", "8", "9" >>

HexDigits ==
    << "0", "1", "2", "3", "4", "5", "6", "7", "8", "9",
       "a", "b", "c", "d", "e", "f" >>

\* Python's None (no tuple of characters equals it).
None == << "None" >>

\* Python truthiness of an optional string: None and "" are falsy.
Truthy(s) == s # None /\ s # << >>

\* s < t on str (Python) and on string values (MongoDB, simple collation).
\* s[i..] < t[i..], given that s and t agree before position i.
RECURSIVE StrLessFrom(_, _, _)
StrLessFrom(s, t, i) ==
    IF i > Len(t) THEN FALSE
    ELSE IF i > Len(s) THEN TRUE
    ELSE IF s[i] = t[i] THEN StrLessFrom(s, t, i + 1)
    ELSE Ord[s[i]] < Ord[t[i]]

StrLess(s, t) == StrLessFrom(s, t, 1)

StrLe(s, t) == s = t \/ StrLess(s, t)

\* "%02d"
Pad2(n) == << Digits[(n \div 10) + 1], Digits[(n % 10) + 1] >>

\* "%Y-%m-%d" of day d (day 0 is 2024-06-30; June has 30 days).
FormatDate(d) ==
    LET n == 30 + d
    IN  IF n <= 30
        THEN << "2", "0", "2", "4", "-", "0", "6", "-" >> \o Pad2(n)
        ELSE << "2", "0", "2", "4", "-", "0", "7", "-" >> \o Pad2(n - 30)

\* The dates of the days the clock can show, formatted once.
Dates == [d \in 0..(MaxDay + 1) |-> FormatDate(d)]

\* datetime.now().strftime("%Y-%m-%d") on day d.
strftime(d) == Dates[d]

\* datetime.now().isoformat() + "Z" on day d (the time of day is not modelled).
isoformat_Z(d) ==
    strftime(d) \o << "T", "0", "9", ":", "0", "0", ":", "0", "0", "Z" >>

(* ---------------------------------------------------------------------- *)
(* bson.ObjectId                                                           *)
(* ---------------------------------------------------------------------- *)
InvalidId == -1

\* The 24 lowercase hex digits of ObjectId n (n < 256 here).
HexString(n) ==
    [i \in 1..24 |->
        IF i = 23 THEN HexDigits[((n \div 16) % 16) + 1]
        ELSE IF i = 24 THEN HexDigits[(n % 16) + 1]
        ELSE "0"]

\* The strings of the ObjectIds in use, formatted once.
HexStrings == [n \in 0..(MaxOid + 1) |-> HexString(n)]

\* str(oid)
ObjectIdStr(n) == HexStrings[n]

HexChars == {HexDigits[i] : i \in 1..Len(HexDigits)}

HexVal == [c \in HexChars |-> (CHOOSE i \in 1..Len(HexDigits) : HexDigits[i] = c) - 1]

IsHex(c) == c \in HexChars

\* The number the first n hex digits of s write.
RECURSIVE HexNumber(_, _)
HexNumber(s, n) ==
    IF n = 0 THEN 0 ELSE 16 * HexNumber(s, n - 1) + HexVal[s[n]]

\* bson.ObjectId(s): the id a 24-hex-digit string names; InvalidId is raised
\* otherwise.
ParseObjectId(s) ==
    IF Len(s) = 24 /\ \A i \in 1..Len(s) : IsHex(s[i])
    THEN HexNumber(s, Len(s))
    ELSE InvalidId

(* ---------------------------------------------------------------------- *)
(* Requests: the values the parameters are drawn from                      *)
(* ---------------------------------------------------------------------- *)
Usernames == {"t1", "guest"}

Messages == {"m1", "m2"}

EndDates == {strftime(0), strftime(1)}

StartDates == {None, << >>, strftime(1)}

\* Every id in use, one well-formed id no document has, one malformed string.
AnnouncementIds ==
    {ObjectIdStr(n) : n \in 0..(MaxOid + 1)} \cup {<< "b", "a", "d" >>}

\* ParseObjectId on the ids requests carry, parsed once.
ParsedIds == [s \in AnnouncementIds |-> ParseObjectId(s)]

\* ObjectId(announcement_id)
ObjectId(s) == ParsedIds[s]

FailPoints == {"none", "teachers", "announcements"}

(* ---------------------------------------------------------------------- *)
(* The collections (..database)                                            *)
(* ---------------------------------------------------------------------- *)
\* teachers_collection: the _id of every teacher document.  Read-only here.
teachers_collection == {"t1"}

\* Mutant: find_one({}) -- the filter is dropped, any caller finds a teacher.
find_one_unfiltered(username) ==
    << CHOOSE t \in teachers_collection : TRUE >>

\* teachers_collection.find_one({"_id": username}): the document or None.
find_one(username) ==
    IF username \in teachers_collection THEN << username >> ELSE None

HasField(doc, f) == f \in DOMAIN doc

\* Mutant: "$lt" for "$lte" on start_date.
ActiveFilterLt(doc, current_date) ==
    /\ \/ ~HasField(doc, "start_date")
       \/ HasField(doc, "start_date") /\ StrLess(doc.start_date, current_date)
    /\ HasField(doc, "end_date")
    /\ StrLe(current_date, doc.end_date)

\* The filter of get_active_announcements:
\*   {"$or": [{"start_date": {"$exists": False}},
\*            {"start_date": {"$lte": current_date}}],
\*    "end_date": {"$gte": current_date}}
ActiveFilter(doc, current_date) ==
    /\ \/ ~HasField(doc, "start_date")
       \/ HasField(doc, "start_date") /\ StrLe(doc.start_date, current_date)
    /\ HasField(doc, "end_date")
    /\ StrLe(current_date, doc.end_date)

\* list(announcements_collection.find(<active filter>)), in natural order.
find_active(coll, current_date) ==
    LET Test(doc) == ActiveFilter(doc, current_date)
    IN  SelectSeq(coll, Test)

\* for announcement in announcements: announcement["_id"] = str(announcement["_id"])
Stringify(docs) ==
    [i \in 1..Len(docs) |-> [docs[i] EXCEPT !["_id"] = ObjectIdStr(@)]]

\* The positions of the documents {"_id": oid} matches.
Matches(coll, oid) == {i \in 1..Len(coll) : coll[i]["_id"] = oid}

First(S) == CHOOSE i \in S : \A j \in S : i <= j

\* {"$set": update_data} applied to one document.
SetFields(doc, update_data) ==
    [k \in DOMAIN doc \cup DOMAIN update_data |->
        IF k \in DOMAIN update_data THEN update_data[k] ELSE doc[k]]

\* announcements_collection.insert_one(announcement) with the generated _id.
insert_one(coll, doc, oid) ==
    Append(coll, [k \in DOMAIN doc \cup {"_id"} |->
                    IF k = "_id" THEN oid ELSE doc[k]])

\* Mutant: update_one(..., upsert=True) -- no match inserts the document.
update_one_upsert(coll, oid, update_data) ==
    IF Matches(coll, oid) = {}
    THEN [coll |-> insert_one(coll, update_data, oid), matched_count |-> 0]
    ELSE [coll |-> [coll EXCEPT ![First(Matches(coll, oid))] =
                        SetFields(@, update_data)],
          matched_count |-> 1]

\* announcements_collection.update_one({"_id": oid}, {"$set": update_data}).
update_one(coll, oid, update_data) ==
    IF Matches(coll, oid) = {}
    THEN [coll |-> coll, matched_count |-> 0]
    ELSE [coll |-> [coll EXCEPT ![First(Matches(coll, oid))] =
                        SetFields(@, update_data)],
          matched_count |-> 1]

\* Mutant: delete_one({"_id": announcement_id}) -- the string never equals an
\* ObjectId, nothing is deleted.
delete_one_by_string(coll, oid) == [coll |-> coll, deleted_count |-> 0]

\* announcements_collection.delete_one({"_id": oid}).
delete_one(coll, oid) ==
    IF Matches(coll, oid) = {}
    THEN [coll |-> coll, deleted_count |-> 0]
    ELSE LET i == First(Matches(coll, oid))
         IN  [coll |-> SubSeq(coll, 1, i - 1) \o SubSeq(coll, i + 1, Len(coll)),
              deleted_count |-> 1]

(* ---------------------------------------------------------------------- *)
(* The handlers.  Each yields the collection it leaves and the response    *)
(* the router sends: the status, the JSON body (a list of documents; the   *)
(* created document alone for POST) and the detail or message text.        *)
(* `fail` names the collection whose call raises in this request, if any.  *)
(* ---------------------------------------------------------------------- *)
Reply(coll, status, body, detail) ==
    [coll |-> coll, status |-> status, body |-> body, detail |-> detail]

\* Mutant: the lookup's exception is reported instead of swallowed.
get_active_announcements_raising(coll, today, fail) ==
    IF fail = "announcements"
    THEN [coll |-> coll, status |-> 500, body |-> << >>,
          detail |-> "Failed to fetch announcements"]
    ELSE [coll |-> coll, status |-> 200,
          body |-> Stringify(find_active(coll, strftime(today))), detail |-> ""]

\* GET /announcements
get_active_announcements(coll, today, fail) ==
    IF fail = "announcements"
    THEN Reply(coll, 200, << >>, "")                        \* except Exception: return []
    ELSE Reply(coll, 200, Stringify(find_active(coll, strftime(today))), "")

\* GET /announcements/all
get_all_announcements(coll, username, fail) ==
    IF fail = "teachers"
    THEN Reply(coll, 200, << >>, "")                        \* except Exception: return []
    ELSE IF find_one(username) = None
    THEN Reply(coll, 401, << >>, "Unauthorized")
    ELSE IF fail = "announcements"
    THEN Reply(coll, 200, << >>, "")                        \* except Exception: return []
    ELSE Reply(coll, 200, Stringify(coll), "")

\* Mutant: "<=" for "<" -- an end_date of today is refused.
end_date_not_after(end_date, current_date) == StrLe(end_date, current_date)

\* if end_date < datetime.now().strftime("%Y-%m-%d")
end_date_in_past(end_date, current_date) == StrLess(end_date, current_date)

\* Mutant: the supplied start_date is ignored.
start_date_always_today(start_date, current_date) == current_date

\* start_date or datetime.now().strftime("%Y-%m-%d")
start_date_or_today(start_date, current_date) ==
    IF Truthy(start_date) THEN start_date ELSE current_date

\* POST /announcements.  d1, d2 and d3 are the days of the three
\* datetime.now() calls (lines 82, 88 and 91); oid is the generated _id.
create_announcement(coll, oid, message, end_date, username, start_date, d1, d2, d3, fail) ==
    IF fail = "teachers"
    THEN Reply(coll, 500, << >>, "Failed to create announcement")
    ELSE IF find_one(username) = None
    THEN Reply(coll, 401, << >>, "Unauthorized")
    ELSE IF end_date_in_past(end_date, strftime(d1))
    THEN Reply(coll, 400, << >>, "End date must be in the future")
    ELSE IF fail = "announcements"
    THEN Reply(coll, 500, << >>, "Failed to create announcement")
    ELSE LET announcement ==
                 [message    |-> message,
                  start_date |-> start_date_or_today(start_date, strftime(d2)),
                  end_date   |-> end_date,
                  created_by |-> username,
                  created_at |-> isoformat_Z(d3)]
             stored == insert_one(coll, announcement, oid)
         IN  Reply(stored, 200, Stringify(<< stored[Len(stored)] >>), "")

\* Mutant: start_date is always part of the $set, None included.
update_data_with_start(message, end_date, start_date) ==
    [message |-> message, end_date |-> end_date, start_date |-> start_date]

\* {"message": message, "end_date": end_date}, plus start_date when truthy.
update_data(message, end_date, start_date) ==
    IF Truthy(start_date)
    THEN [message |-> message, end_date |-> end_date, start_date |-> start_date]
    ELSE [message |-> message, end_date |-> end_date]

\* Mutant: update validates end_date the way create does.
update_announcement_validating(coll, announcement_id, message, end_date, username, start_date, fail) ==
    IF fail = "teachers"
    THEN [coll |-> coll, status |-> 500, body |-> << >>,
          detail |-> "Failed to update announcement"]
    ELSE IF username \notin teachers_collection
    THEN [coll |-> coll, status |-> 401, body |-> << >>, detail |-> "Unauthorized"]
    ELSE IF StrLess(end_date, strftime(clock))
    THEN [coll |-> coll, status |-> 400, body |-> << >>,
          detail |-> "End date must be in the future"]
    ELSE IF ParsedIds[announcement_id] = InvalidId \/ fail = "announcements"
    THEN [coll |-> coll, status |-> 500, body |-> << >>,
          detail |-> "Failed to update announcement"]
    ELSE IF Matches(coll, ParsedIds[announcement_id]) = {}
    THEN [coll |-> coll, status |-> 404, body |-> << >>,
          detail |-> "Announcement not found"]
    ELSE [coll |-> [coll EXCEPT ![First(Matches(coll, ParsedIds[announcement_id]))] =
                      SetFields(@, IF Truthy(start_date)
                                   THEN [message |-> message, end_date |-> end_date,
                                         start_date |-> start_date]
                                   ELSE [message |-> message, end_date |-> end_date])],
          status |-> 200, body |-> << >>,
          detail |-> "Announcement updated successfully"]

\* PUT /announcements/{announcement_id}
update_announcement(coll, announcement_id, message, end_date, username, start_date, fail) ==
    IF fail = "teachers"
    THEN Reply(coll, 500, << >>, "Failed to update announcement")
    ELSE IF find_one(username) = None
    THEN Reply(coll, 401, << >>, "Unauthorized")
    ELSE IF ObjectId(announcement_id) = InvalidId          \* bson.errors.InvalidId
    THEN Reply(coll, 500, << >>, "Failed to update announcement")
    ELSE IF fail = "announcements"
    THEN Reply(coll, 500, << >>, "Failed to update announcement")
    ELSE LET result == update_one(coll, ObjectId(announcement_id),
                                  update_data(message, end_date, start_date))
         IN  IF result.matched_count = 0
             THEN Reply(result.coll, 404, << >>, "Announcement not found")
             ELSE Reply(result.coll, 200, << >>, "Announcement updated successfully")

\* DELETE /announcements/{announcement_id}
delete_announcement(coll, announcement_id, username, fail) ==
    IF fail = "teachers"
    THEN Reply(coll, 500, << >>, "Failed to delete announcement")
    ELSE IF find_one(username) = None
    THEN Reply(coll, 401, << >>, "Unauthorized")
    ELSE IF ObjectId(announcement_id) = InvalidId          \* bson.errors.InvalidId
    THEN Reply(coll, 500, << >>, "Failed to delete announcement")
    ELSE IF fail = "announcements"
    THEN Reply(coll, 500, << >>, "Failed to delete announcement")
    ELSE LET result == delete_one(coll, ObjectId(announcement_id))
         IN  IF result.deleted_count = 0
             THEN Reply(result.coll, 404, << >>, "Announcement not found")
             ELSE Reply(result.coll, 200, << >>, "Announcement deleted successfully")

(* ---------------------------------------------------------------------- *)
(* The state after start-up                                                *)
(* ---------------------------------------------------------------------- *)
\* A document written before start_date existed: it has no start_date field.
Legacy ==
    [k \in {"_id", "message", "end_date", "created_by", "created_at"} |->
        CASE k = "_id"        -> 0
          [] k = "message"    -> "m1"
          [] k = "end_date"   -> strftime(1)
          [] k = "created_by" -> "t1"
          [] k = "created_at" -> isoformat_Z(0)]

NoTrack == [oid |-> InvalidId, day |-> 0]

Sent(op, r, id, start_date) ==
    [op |-> op, status |-> r.status, body |-> r.body, detail |-> r.detail,
     id |-> id, start_date |-> start_date]

Init ==
    /\ announcements_collection = << Legacy >>
    /\ clock = 0
    /\ next_oid = 1
    /\ resp = [op |-> "none", status |-> 0, body |-> << >>, detail |-> "",
               id |-> None, start_date |-> None]
    /\ tracked = NoTrack
    /\ reqs = << >>

(* ---------------------------------------------------------------------- *)
(* One request at a time                                                   *)
(* ---------------------------------------------------------------------- *)
\* Midnight passes.
Tick ==
    /\ clock < MaxDay
    /\ clock' = clock + 1
    /\ UNCHANGED <<announcements_collection, next_oid, resp, tracked, reqs>>

GetActive(fail) ==
    LET r == get_active_announcements(announcements_collection, clock, fail)
    IN  /\ announcements_collection' = r.coll
        /\ resp' = Sent("list_active", r, None, None)
        /\ UNCHANGED <<clock, next_oid, tracked, reqs>>

GetAll(username, fail) ==
    LET r == get_all_announcements(announcements_collection, username, fail)
    IN  /\ announcements_collection' = r.coll
        /\ resp' = Sent("list_all", r, None, None)
        /\ UNCHANGED <<clock, next_oid, tracked, reqs>>

\* The request arrives on day clock; at most one midnight passes while it runs.
\* No more than MaxOid documents are ever inserted.
Create(message, end_date, username, start_date, d2, d3, fail) ==
    LET r == create_announcement(announcements_collection, next_oid, message,
                                 end_date, username, start_date,
                                 clock, d2, d3, fail)
    IN  /\ r.status = 200 => next_oid <= MaxOid
        /\ announcements_collection' = r.coll
        /\ resp' = Sent("create", r, None, start_date)
        /\ IF r.status = 200
           THEN /\ clock' = d3
                /\ next_oid' = next_oid + 1
                /\ tracked' = IF Truthy(start_date) THEN tracked
                              ELSE [oid |-> next_oid, day |-> clock]
           ELSE UNCHANGED <<clock, next_oid, tracked>>
        /\ UNCHANGED reqs

Update(announcement_id, message, end_date, username, start_date, fail) ==
    LET r == update_announcement(announcements_collection, announcement_id,
                                 message, end_date, username, start_date, fail)
    IN  /\ announcements_collection' = r.coll
        /\ resp' = Sent("update", r, announcement_id, start_date)
        /\ tracked' = IF r.status = 200 /\ ObjectId(announcement_id) = tracked.oid
                      THEN NoTrack ELSE tracked
        /\ UNCHANGED <<clock, next_oid, reqs>>

Delete(announcement_id, username, fail) ==
    LET r == delete_announcement(announcements_collection, announcement_id,
                                 username, fail)
    IN  /\ announcements_collection' = r.coll
        /\ resp' = Sent("delete", r, announcement_id, None)
        /\ tracked' = IF r.status = 200 /\ ObjectId(announcement_id) = tracked.oid
                      THEN NoTrack ELSE tracked
        /\ UNCHANGED <<clock, next_oid, reqs>>

Days(from) == {d \in from..(from + 1) : d <= MaxDay}

Next ==
    \/ Tick
    \/ \E fail \in {"none", "announcements"} : GetActive(fail)
    \/ \E username \in Usernames, fail \in FailPoints : GetAll(username, fail)
    \/ \E message \in Messages, end_date \in EndDates, username \in Usernames,
          start_date \in StartDates :
            \E d2 \in Days(clock) : \E d3 \in {d \in Days(clock) : d >= d2} :
                Create(message, end_date, username, start_date, d2, d3, "none")
    \/ \E end_date \in EndDates, username \in Usernames, fail \in FailPoints \ {"none"} :
                Create("m1", end_date, username, None, clock, clock, fail)
    \/ \E announcement_id \in AnnouncementIds, message \in Messages,
          end_date \in EndDates, username \in Usernames,
          start_date \in StartDates :
            Update(announcement_id, message, end_date, username, start_date, "none")
    \/ \E announcement_id \in AnnouncementIds, username \in Usernames, fail \in FailPoints \ {"none"} :
            Update(announcement_id, "m1", strftime(0), username, None, fail)
    \/ \E announcement_id \in AnnouncementIds, username \in Usernames,
          fail \in FailPoints :
            Delete(announcement_id, username, fail)

Spec == Init /\ [][Next]_vars

(* ---------------------------------------------------------------------- *)
(* Concurrent requests.  The handlers are plain `def`s, which the server   *)
(* runs on worker threads: two requests interleave at their collection     *)
(* calls, and each call is atomic in the database.  Here two authorized    *)
(* PUT/DELETE requests for the same announcement run side by side.         *)
(* ---------------------------------------------------------------------- *)
\* A document created through POST, the one both requests name.
Target ==
    [k \in {"_id", "message", "start_date", "end_date", "created_by", "created_at"} |->
        CASE k = "_id"        -> 1
          [] k = "message"    -> "m1"
          [] k = "start_date" -> strftime(0)
          [] k = "end_date"   -> strftime(1)
          [] k = "created_by" -> "t1"
          [] k = "created_at" -> isoformat_Z(0)]

ConcCollection == << Legacy, Target >>

ConcRequests ==
    [op : {"update"}, announcement_id : {ObjectIdStr(1)}, message : Messages,
     end_date : EndDates, username : teachers_collection,
     start_date : StartDates, pc : {"auth"}, status : {0}, turn : {0}]
    \cup
    [op : {"delete"}, announcement_id : {ObjectIdStr(1)}, message : {"m1"},
     end_date : {strftime(0)}, username : teachers_collection,
     start_date : {None}, pc : {"auth"}, status : {0}, turn : {0}]

ConcInit ==
    /\ announcements_collection = ConcCollection
    /\ clock = 0
    /\ next_oid = 2
    /\ resp = [op |-> "none", status |-> 0, body |-> << >>, detail |-> "",
               id |-> None, start_date |-> None]
    /\ tracked = NoTrack
    /\ reqs \in [1..2 -> ConcRequests]

\* The collection calls made so far.
Calls == Cardinality({q \in DOMAIN reqs : reqs[q].turn > 0})

\* teacher = teachers_collection.find_one({"_id": username}); 401 if not teacher
Authenticate(p) ==
    /\ reqs[p].pc = "auth"
    /\ reqs' = [reqs EXCEPT ![p] =
                 IF find_one(reqs[p].username) = None
                 THEN [@ EXCEPT !.pc = "done", !.status = 401]
                 ELSE [@ EXCEPT !.pc = "call"]]
    /\ UNCHANGED <<announcements_collection, clock, next_oid, resp, tracked>>

\* result = announcements_collection.update_one(...), then the reply.
UpdateCall(p) ==
    /\ reqs[p].pc = "call"
    /\ reqs[p].op = "update"
    /\ LET oid    == ObjectId(reqs[p].announcement_id)
           result == update_one(announcements_collection, oid,
                                update_data(reqs[p].message, reqs[p].end_date,
                                            reqs[p].start_date))
       IN  IF oid = InvalidId
           THEN /\ reqs' = [reqs EXCEPT ![p].pc = "done", ![p].status = 500]
                /\ UNCHANGED announcements_collection
           ELSE /\ announcements_collection' = result.coll
                /\ reqs' = [reqs EXCEPT
                              ![p].pc = "done",
                              ![p].turn = Calls + 1,
                              ![p].status = IF result.matched_count = 0
                                            THEN 404 ELSE 200]
    /\ UNCHANGED <<clock, next_oid, resp, tracked>>

\* result = announcements_collection.delete_one(...), then the reply.
DeleteCall(p) ==
    /\ reqs[p].pc = "call"
    /\ reqs[p].op = "delete"
    /\ LET oid    == ObjectId(reqs[p].announcement_id)
           result == delete_one(announcements_collection, oid)
       IN  IF oid = InvalidId
           THEN /\ reqs' = [reqs EXCEPT ![p].pc = "done", ![p].status = 500]
                /\ UNCHANGED announcements_collection
           ELSE /\ announcements_collection' = result.coll
                /\ reqs' = [reqs EXCEPT
                              ![p].pc = "done",
                              ![p].turn = Calls + 1,
                              ![p].status = IF result.deleted_count = 0
                                            THEN 404 ELSE 200]
    /\ UNCHANGED <<clock, next_oid, resp, tracked>>

ConcNext ==
    \/ \E p \in DOMAIN reqs : Authenticate(p)
    \/ \E p \in DOMAIN reqs : UpdateCall(p)
    \/ \E p \in DOMAIN reqs : DeleteCall(p)

ConcSpec == ConcInit /\ [][ConcNext]_vars

(* ---------------------------------------------------------------------- *)
(* Properties                                                              *)
(* ---------------------------------------------------------------------- *)
Ids(coll) == {coll[i]["_id"] : i \in 1..Len(coll)}

BodyIds(body) == {body[i]["_id"] : i \in 1..Len(body)}

\* The document as the API returns it.
Returned(doc) == [doc EXCEPT !["_id"] = ObjectIdStr(@)]

\* Active at date D: start_date absent or <= D, and end_date >= D, as strings.
IsActiveAt(doc, D) ==
    /\ "start_date" \notin DOMAIN doc \/ StrLe(doc.start_date, D)
    /\ StrLe(D, doc.end_date)

Unknown == Usernames \ teachers_collection

\* C1: list_active returns exactly the stored announcements active at the
\* current date, each once and in store order: none omitted, none inactive.
C1_ListActiveExact ==
    [][resp'.op = "list_active" /\ GetActive("none") =>
        LET D    == strftime(clock)
            coll == announcements_collection
            body == resp'.body
        IN  /\ \A i \in 1..Len(coll) :
                  IsActiveAt(coll[i], D) =>
                      \E j \in 1..Len(body) : body[j] = Returned(coll[i])
            /\ \A j \in 1..Len(body) :
                  \E i \in 1..Len(coll) :
                      body[j] = Returned(coll[i]) /\ IsActiveAt(coll[i], D)
            /\ Len(body) = Cardinality({i \in 1..Len(coll) : IsActiveAt(coll[i], D)})
            /\ \A j, k \in 1..Len(body) :
                  j < k => \E i, l \in 1..Len(coll) :
                      i < l /\ body[j] = Returned(coll[i]) /\ body[k] = Returned(coll[l])
    ]_vars

\* A listing that returned a record without start_date and left out a stored one.
C1_Witness ==
    /\ resp.op = "list_active"
    /\ Len(resp.body) >= 1
    /\ Len(resp.body) < Len(announcements_collection)
    /\ \E j \in 1..Len(resp.body) : "start_date" \notin DOMAIN resp.body[j]

\* C8: list_active always answers 200 and leaves the store alone; with an
\* empty store, or when the lookup raises, the body is the empty list.
C8_ListActiveNeverFails ==
    [][resp'.op = "list_active" =>
        \A fail \in {"none", "announcements"} :
            GetActive(fail) =>
                /\ resp'.status = 200
                /\ announcements_collection' = announcements_collection
                /\ announcements_collection = << >> => resp'.body = << >>
                /\ fail = "announcements" => resp'.body = << >>
    ]_vars

\* A listing that came back empty although an active record is stored: the
\* lookup raised.
C8_Witness ==
    /\ resp.op = "list_active"
    /\ resp.status = 200
    /\ resp.body = << >>
    /\ \E i \in 1..Len(announcements_collection) :
          IsActiveAt(announcements_collection[i], strftime(clock))

\* The position of the document with ObjectId oid (oid is in Ids(coll)).
IndexOf(coll, oid) == CHOOSE i \in 1..Len(coll) : coll[i]["_id"] = oid

\* C2: a caller who is not in the teacher registry gets 401 from list_all,
\* create, update and delete, whatever the other arguments are (the registry
\* lookup itself answering), and the store is the same before and after.
C2_UnknownCallerUnauthorized ==
    [][\A username \in Unknown, fail \in FailPoints :
        LET Refused == /\ fail # "teachers" => resp'.status = 401
                       /\ announcements_collection' = announcements_collection
        IN  \/ Refused
            \/ /\ resp'.op = "list_all" => ~GetAll(username, fail)
               /\ resp'.op = "create" =>
                     \A message \in Messages, end_date \in EndDates :
                       \A d2 \in Days(clock) : \A d3 \in {d \in Days(clock) : d >= d2} :
                         ~Create(message, end_date, username, resp'.start_date,
                                 d2, d3, fail)
               /\ resp'.op = "update" =>
                     \A message \in Messages, end_date \in EndDates :
                       ~Update(resp'.id, message, end_date, username,
                               resp'.start_date, fail)
               /\ resp'.op = "delete" => ~Delete(resp'.id, username, fail)
    ]_vars

\* An update naming a malformed id was refused with 401.
C2_Witness ==
    /\ resp.op = "update"
    /\ resp.status = 401
    /\ ObjectId(resp.id) = InvalidId
    /\ Len(announcements_collection) >= 1

C4_CreateBuildsRecord ==
    [][resp'.op = "create" /\ resp'.status = 200 =>
        \A username \in Usernames, message \in Messages, end_date \in EndDates :
          \A d2 \in Days(clock) : \A d3 \in {d \in Days(clock) : d >= d2} :
            Create(message, end_date, username, resp'.start_date,
                   d2, d3, "none") =>
                LET old   == announcements_collection
                    new   == announcements_collection'
                    added == new[Len(new)]
                IN  /\ Len(new) = Len(old) + 1
                    /\ SubSeq(new, 1, Len(old)) = old
                    /\ resp'.body = << Returned(added) >>
                    /\ added["_id"] \notin Ids(old)
                    /\ added.created_by = username
                    /\ added.message = message
                    /\ added.end_date = end_date
                    /\ added.start_date =
                          IF resp'.start_date \in {None, << >>}
                          THEN strftime(d2)
                          ELSE resp'.start_date
    ]_vars

\* A create that omitted start_date returned a record starting today, beside
\* the record already stored.
C4_Witness ==
    /\ resp.op = "create"
    /\ resp.status = 200
    /\ resp.start_date = None
    /\ resp.body[1].start_date = strftime(clock)
    /\ Len(announcements_collection) = 2

\* C5: a successful update that supplies no start_date (None or "") changes
\* only the message and end_date of the record it names; that record's other
\* fields (start_date, or its absence, among them) and every other record
\* stay as stored, and list_all returns the store as it is.
C5_UpdateKeepsStartDate ==
    [][/\ resp'.op = "update" /\ resp'.status = 200
          /\ resp'.start_date \in {None, << >>} =>
            \A username \in Usernames, message \in Messages, end_date \in EndDates :
              Update(resp'.id, message, end_date, username,
                     resp'.start_date, "none") =>
                  LET old == announcements_collection
                      new == announcements_collection'
                  IN  /\ Len(new) = Len(old)
                      /\ \A i \in 1..Len(old) :
                            IF ObjectIdStr(old[i]["_id"]) = resp'.id
                            THEN /\ DOMAIN new[i] = DOMAIN old[i]
                                 /\ new[i].message = message
                                 /\ new[i].end_date = end_date
                                 /\ \A k \in DOMAIN old[i] \ {"message", "end_date"} :
                                       new[i][k] = old[i][k]
                            ELSE new[i] = old[i]
       /\ resp'.op = "list_all" =>
            \A username \in teachers_collection :
              GetAll(username, "none") =>
                  /\ Len(resp'.body) = Len(announcements_collection)
                  /\ \A i \in 1..Len(resp'.body) :
                        resp'.body[i] = Returned(announcements_collection[i])
    ]_vars

\* An update without start_date rewrote the message of a record that has a
\* start_date, in a store of two records.
C5_Witness ==
    /\ resp.op = "update"
    /\ resp.status = 200
    /\ resp.start_date = None
    /\ Len(announcements_collection) = 2
    /\ \E i \in 1..Len(announcements_collection) :
          /\ ObjectIdStr(announcements_collection[i]["_id"]) = resp.id
          /\ "start_date" \in DOMAIN announcements_collection[i]
          /\ announcements_collection[i].message = "m2"

\* C6: for an authorized caller (no store call raising) and every id string
\* that is the id of no stored record, update and delete answer 404, never
\* 500, and leave the store alone.
C6_UnknownIdNotFound ==
    [][resp'.op \in {"update", "delete"} =>
        \A username \in teachers_collection :
          (\A i \in 1..Len(announcements_collection) :
              ObjectIdStr(announcements_collection[i]["_id"]) # resp'.id) =>
            /\ \A message \in Messages, end_date \in EndDates :
                  Update(resp'.id, message, end_date, username,
                         resp'.start_date, "none") =>
                      /\ resp'.status = 404
                      /\ announcements_collection' = announcements_collection
            /\ Delete(resp'.id, username, "none") =>
                  /\ resp'.status = 404
                  /\ announcements_collection' = announcements_collection
    ]_vars

\* The part of C6 the code keeps: a well-formed id that is the id of no
\* stored record gets 404 and the store stays as it is.
C6_WellFormedUnknownIdNotFound ==
    [][resp'.op \in {"update", "delete"} /\ ObjectId(resp'.id) # InvalidId =>
        \A username \in teachers_collection :
          ObjectId(resp'.id) \notin Ids(announcements_collection) =>
            /\ \A message \in Messages, end_date \in EndDates :
                  Update(resp'.id, message, end_date, username,
                         resp'.start_date, "none") =>
                      /\ resp'.status = 404
                      /\ announcements_collection' = announcements_collection
            /\ Delete(resp'.id, username, "none") =>
                  /\ resp'.status = 404
                  /\ announcements_collection' = announcements_collection
    ]_vars

\* C7: a record created by an authorized caller with no start_date (and an
\* end_date not before the current date) is in every list_active of that
\* same date until it is updated or deleted; an authorized delete of its id
\* succeeds; and an id that has left the store is never stored or listed again.
C7_CreateListDelete ==
    [][/\ resp'.op = "list_active" /\ GetActive("none")
          /\ tracked.oid # InvalidId /\ clock = tracked.day =>
            ObjectIdStr(tracked.oid) \in BodyIds(resp'.body)
       /\ resp'.op = "delete" /\ tracked.oid # InvalidId =>
            \A username \in teachers_collection :
              Delete(ObjectIdStr(tracked.oid), username, "none") =>
                  /\ resp'.status = 200
                  /\ tracked.oid \notin Ids(announcements_collection')
       /\ \A n \in 0..(next_oid - 1) :
            n \notin Ids(announcements_collection) =>
                /\ n \notin Ids(announcements_collection')
                /\ ObjectIdStr(n) \notin BodyIds(resp'.body)
    ]_vars

\* The record just created without start_date is in the listing of the day
\* it was created on.
C7_Witness ==
    /\ tracked.oid # InvalidId
    /\ clock = tracked.day
    /\ resp.op = "list_active"
    /\ ObjectIdStr(tracked.oid) \in BodyIds(resp.body)

\* The created record was deleted and a later listing does not show it.
C7_WitnessDeleted ==
    /\ next_oid = 2
    /\ 1 \notin Ids(announcements_collection)
    /\ resp.op \in {"list_active", "list_all"}
    /\ resp.status = 200

\* C9: update does not validate dates.  For an authorized caller and a stored
\* id (no store call raising) it answers 200 and stores the supplied message
\* and end_date, whatever the end_date; when that end_date is before the
\* current date, list_active of the current date no longer returns the
\* record, and a create with that end_date is refused with 400.
C9_UpdateSkipsDateCheck ==
    [][resp'.op = "update" /\ ObjectId(resp'.id) \in Ids(announcements_collection) =>
        \A username \in teachers_collection, message \in Messages,
           end_date \in EndDates :
          Update(resp'.id, message, end_date, username, resp'.start_date, "none") =>
              LET new == announcements_collection'
                  doc == new[IndexOf(new, ObjectId(resp'.id))]
                  D   == strftime(clock)
              IN  /\ resp'.status = 200
                  /\ doc.message = message
                  /\ doc.end_date = end_date
                  /\ StrLess(end_date, D) =>
                        /\ resp'.id \notin
                              BodyIds(get_active_announcements(new, clock, "none").body)
                        /\ create_announcement(new, next_oid, message, end_date,
                                               username, resp'.start_date,
                                               clock, clock, clock, "none").status = 400
    ]_vars

\* An update has just stored an end_date that is before the current date.
C9_Witness ==
    /\ resp.op = "update"
    /\ resp.status = 200
    /\ \E i \in 1..Len(announcements_collection) :
          /\ ObjectIdStr(announcements_collection[i]["_id"]) = resp.id
          /\ StrLess(announcements_collection[i].end_date, strftime(clock))

(* ---------------------------------------------------------------------- *)
(* C10: the concurrent requests                                            *)
(* ---------------------------------------------------------------------- *)
AllDone == \A p \in DOMAIN reqs : reqs[p].pc = "done"

\* The request as the handler run alone: the collection and status it leaves.
Alone(coll, r) ==
    IF r.op = "update"
    THEN update_announcement(coll, r.announcement_id, r.message, r.end_date,
                             r.username, r.start_date, "none")
    ELSE delete_announcement(coll, r.announcement_id, r.username, "none")

\* p's collection call came before q's.
Before(p, q) == reqs[p].turn < reqs[q].turn

\* The target document in the collection, if it is there.
TargetDocs(coll) == {i \in 1..Len(coll) : coll[i]["_id"] = Target["_id"]}

\* C10: every interleaving of two authorized update/delete requests on one
\* id ends as the serial run in the order of their collection calls ends
\* (last writer wins), statuses included.  An update racing a delete leaves
\* the record absent, the delete answering 200 and the update 200 or 404;
\* two updates leave message and end_date of the later call, both answer 200;
\* the record is never re-created and the other record never changes.
C10_RaceIsSerial ==
    AllDone =>
        \A p, q \in DOMAIN reqs :
            Before(p, q) =>
                LET first  == Alone(ConcCollection, reqs[p])
                    second == Alone(first.coll, reqs[q])
                    coll   == announcements_collection
                IN  /\ coll = second.coll
                    /\ reqs[p].status = first.status
                    /\ reqs[q].status = second.status
                    /\ coll[1] = Legacy
                    /\ "delete" \in {reqs[p].op, reqs[q].op} =>
                          /\ TargetDocs(coll) = {}
                          /\ \A r \in {p, q} :
                                reqs[r].op = "update" => reqs[r].status \in {200, 404}
                          /\ \E r \in {p, q} :
                                reqs[r].op = "delete" /\ reqs[r].status = 200
                    /\ reqs[p].op = "update" /\ reqs[q].op = "update" =>
                          /\ reqs[p].status = 200 /\ reqs[q].status = 200
                          /\ \E i \in TargetDocs(coll) :
                                /\ coll[i].message = reqs[q].message
                                /\ coll[i].end_date = reqs[q].end_date
                                /\ coll[i].start_date =
                                      IF Truthy(reqs[q].start_date) THEN reqs[q].start_date
                                      ELSE IF Truthy(reqs[p].start_date) THEN reqs[p].start_date
                                      ELSE Target.start_date
                                /\ coll[i].created_by = Target.created_by
                                /\ coll[i].created_at = Target.created_at

\* At no point of a race is the target re-created once gone, or the other
\* record touched.
C10_NoRecreate ==
    [][/\ TargetDocs(announcements_collection) = {}
            => TargetDocs(announcements_collection') = {}
       /\ announcements_collection'[1] = announcements_collection[1]]_vars

\* An update whose collection call came after the delete's: it got 404 and
\* the record stayed absent.
C10_Witness ==
    /\ AllDone
    /\ \E p, q \in DOMAIN reqs :
          /\ reqs[p].op = "delete" /\ reqs[q].op = "update"
          /\ Before(p, q)
          /\ reqs[q].status = 404
          /\ reqs[p].status = 200
          /\ TargetDocs(announcements_collection) = {}

====
